---------------------------- MODULE Spec2Model ----------------------------
(***************************************************************************)
(* influesafe: the credit ledger, the analysis credit gate and the payment *)
(* webhook, as a state machine over the persisted tables.                  *)
(*                                                                         *)
(* The store is the row-locking relational backend the SQL is written for  *)
(* (SELECT ... FOR UPDATE, db/models.py): a transaction is one db_cursor() *)
(* block on a connection of its own; a locking read or an UPDATE waits for *)
(* the row lock, a plain SELECT reads the last committed row, and the      *)
(* transaction's writes become visible, and its locks are released, when   *)
(* the block is left.  Request handlers run concurrently, one per worker.  *)
(***************************************************************************)
EXTENDS Integers, Sequences, FiniteSets, TLC

----------------------------------------------------------------------------
(* Bounds of the model *)

NumProcs == 2
MaxRequests == 2
MaxDeliveries == 3
MaxOverlap == 2
MaxBalance == 2
MaxSessions == 2
MaxPurchases == 3
MaxAnalyses == 1

(* Program constants *)

NoUser == 0
NoSession == 0
NoPurchase == 0
DefaultPackage == 10
FreeCreditsDefault == 0
FreeCreditsHigh == 5
ServiceFreeCredits == 3

Procs == 1 .. NumProcs
\* two workers, whose requests overlap in every way
Pair == {1, 2}
Users == {1, 2}
StaleSid == MaxSessions + 1

\* SimpleRateLimiter(window_s=60, ...), RATE_LIMIT_PER_MINUTE,
\* RATE_LIMIT_MIN_INTERVAL_MS / 1000.0 and OPENAI_RETRIES by default
WindowDefault == 60
RateLimitPerMinute == 6
MinIntervalDefault == 1
RetriesDefault == 2
\* the keys of the limiter: the callers' addresses
Keys == {"ip1", "ip2"}

VARIABLES
    credits_remaining,  \* users.credits_remaining, by user id
    sessions,           \* sessions.credits_temp_remaining, by session_id
    purchases,          \* the purchases table, a row per id
    analyses,           \* the analyses table
    storage,            \* uploads saved under STORAGE_DIR: <<session_id, filename>>
    row_lock,           \* row locks held by open transactions
    provider,           \* PAYMENT_PROVIDER
    secret,             \* PAGBANK_WEBHOOK_SECRET ("" when not set)
    free_credits,       \* FREE_CREDITS
    pc,                 \* each worker's position in its handler
    loc,                \* each worker's request and handler locals
    resp,               \* each worker's last response
    nreq,               \* requests received so far
    granted,            \* history: credits added on account of each purchase
    log,                \* history: completed webhook deliveries that matched a purchase
    init_credits,       \* history: the users' balances at the start
    init_sessions,      \* history: the sessions' balances at the start
    user_calls,         \* history: consume_user_credit_atomic calls, by user
    user_ok,            \* history: those that returned True, by user
    window_s,           \* SimpleRateLimiter.window_s
    max_requests,       \* SimpleRateLimiter.max_requests
    min_interval_s,     \* SimpleRateLimiter.min_interval_s
    retries,            \* OpenAIClient.retries
    mock,               \* OpenAIClient.mock, or no SDK, key or client
    events,             \* SimpleRateLimiter.events: the admitted times kept, by key
    last_call,          \* SimpleRateLimiter.last_call, by key
    clock,              \* time.time()
    admitted,           \* history: the times of the calls allow() admitted, by key
    registered          \* the users rows auth_register created

vars == <<credits_remaining, sessions, purchases, analyses, storage, row_lock, provider,
          secret, free_credits, pc, loc, resp, nreq, granted, log, init_credits,
          init_sessions, user_calls, user_ok, window_s, max_requests, min_interval_s,
          retries, mock, events, last_call, clock, admitted, registered>>

db == <<credits_remaining, sessions, purchases, analyses>>
config == <<provider, secret, free_credits, window_s, max_requests, min_interval_s,
            retries, mock>>
limiter == <<events, last_call, clock, admitted>>
ledger_hist == <<init_credits, init_sessions, user_calls, user_ok>>
pay_hist == <<granted, log>>

----------------------------------------------------------------------------
(* Responses *)

Response(code, body) == [code |-> code, body |-> body]
NoResponse == Response(0, "")

LocIdle ==
    [kind |-> "none", user_id |-> NoUser, session_id |-> NoSession,
     found |-> FALSE, seen |-> 0, purchase_id |-> NoPurchase, package |-> 0,
     status |-> "", touched |-> FALSE, key |-> "", now |-> 0, attempt |-> 0,
     email |-> "", ip_hash |-> ""]

Finish(p, r) ==
    /\ pc' = [pc EXCEPT ![p] = "idle"]
    /\ loc' = [loc EXCEPT ![p] = LocIdle]
    /\ resp' = [resp EXCEPT ![p] = r]

Goto(p, label, l) ==
    /\ pc' = [pc EXCEPT ![p] = label]
    /\ loc' = [loc EXCEPT ![p] = l]
    /\ resp' = [resp EXCEPT ![p] = NoResponse]

----------------------------------------------------------------------------
(* Identity: app.py _make_token, _parse_token, require_auth_maybe *)

SecretKey == "dev-secret-influe"
WrongKey == "guess"

\* hmac.new(key, msg).hexdigest(): a value only the key and the message determine
Sign(key, msg) == <<key, msg>>

\* _make_token: "user_id.sig"
MakeToken(user_id) == <<user_id, Sign(SecretKey, user_id)>>

\* _parse_token: a token without the dot raises and gives None
ParseTokenUnchecked(token) == IF Len(token) # 2 THEN NoUser ELSE token[1]
ParseTokenKeyOnly(token) ==
    IF Len(token) # 2 THEN NoUser
    ELSE IF token[2][1] = SecretKey THEN token[1] ELSE NoUser
ParseToken(token) ==
    IF Len(token) # 2 THEN NoUser
    ELSE IF Sign(SecretKey, token[1]) = token[2] THEN token[1] ELSE NoUser

\* the Authorization header
Authorization(scheme, token) == [scheme |-> scheme, token |-> token]
NoAuth == Authorization("", <<>>)

\* require_auth_maybe: user_id is None unless the header is a Bearer token
\* that parses
ResolveUser(auth) ==
    IF auth.scheme = "Bearer" THEN ParseToken(auth.token) ELSE NoUser

\* no header, or the token _make_token issued to a user
IssuedHeaders ==
    {NoAuth} \cup {Authorization("Bearer", MakeToken(u)) : u \in Users}

\* the headers a client can send: the issued ones; a token signed with
\* another key, with another id's signature, without a signature; another scheme
AuthInputs ==
    IssuedHeaders
    \cup {Authorization("Bearer", <<1, Sign(WrongKey, 1)>>),
          Authorization("Bearer", <<1, Sign(SecretKey, 2)>>),
          Authorization("Bearer", <<1>>),
          Authorization("Basic", MakeToken(1))}

----------------------------------------------------------------------------
(* Row locks: db_cursor transactions on a row-locking store *)

Locked(tbl, key) == \E l \in row_lock : l[1] = tbl /\ l[2] = key

\* SELECT ... FOR UPDATE and UPDATE wait until no other transaction holds the row
NoRowLockWait(tbl, key) == TRUE
RowLockFree(tbl, key) == ~Locked(tbl, key)

Acquire(p, tbl, key) == row_lock' = row_lock \cup {<<tbl, key, p>>}
Release(p, tbl, key) == row_lock' = row_lock \ {<<tbl, key, p>>}

----------------------------------------------------------------------------
(* Credit ledger: db/models.py *)

\* get_or_create_session: an existing row is returned as it is
ResetSession(sid, free) == (sid :> free) @@ sessions
GetOrCreateSession(sid, free) ==
    IF sid \in DOMAIN sessions THEN sessions ELSE sessions @@ (sid :> free)

NewSessionId == Cardinality(DOMAIN sessions) + 1

\* consume_*_credit_atomic: "if not row or row[...] <= 0: return False"
HasCreditOrZero(found, seen) == found /\ seen >= 0
HasCreditWhenFound(found, seen) == found
HasCredit(found, seen) == found /\ seen > 0

\* the order of analyze_text's two attempts: the session is tried after a
\* user attempt that did not succeed
AfterUserConsumedAlsoSession(ok) == "consume_session"
AfterUserAttemptToAi(ok) == "ai"
AfterUserAttempt(ok) == IF ok THEN "ai" ELSE "consume_session"

\* what a request carries: the text of analyze_text, the upload of analyze_photo
Payloads(kind) ==
    IF kind = "analyze_text" THEN {"", "text"} ELSE {"none", "gif", "big", "jpg"}

\* the 400 answers before the credit gate ("" when the request passes)
RejectionNoFormatCheck(kind, payload) ==
    CASE payload = "" -> "Texto vazio."
      [] payload = "none" -> "Nenhuma imagem enviada."
      [] payload = "big" -> "Arquivo excede MAX_UPLOAD_MB."
      [] OTHER -> ""
Rejection(kind, payload) ==
    CASE payload = "" -> "Texto vazio."
      [] payload = "none" -> "Nenhuma imagem enviada."
      [] payload = "gif" -> "Formato invalido. Use JPG/PNG."
      [] payload = "big" -> "Arquivo excede MAX_UPLOAD_MB."
      [] OTHER -> ""

\* secure_filename(file.filename.lower()) of the upload
Filename(payload) == "x." \o payload

\* analyze_photo saves the upload under the session's directory once its
\* checks have passed; analyze_text saves nothing
SaveUpload(files, kind, sid, payload) ==
    IF kind = "analyze_photo" /\ Rejection(kind, payload) = ""
       THEN files \cup {<<sid, Filename(payload)>>}
       ELSE files

\* analyze_text / analyze_photo up to the credit gate: require_auth_maybe,
\* _ensure_session, the checks of the payload, the upload saved
AnalyzeRequest(p, max, kind, auth, cookie, payload) ==
    /\ pc[p] = "idle"
    /\ nreq < max
    /\ LET user == ResolveUser(auth)
           created_now == cookie = NoSession
           sid == IF created_now THEN NewSessionId ELSE cookie
       IN  /\ created_now => Cardinality(DOMAIN sessions) < MaxSessions
           /\ sessions' = IF created_now
                             THEN GetOrCreateSession(sid, free_credits)
                             ELSE sessions
           /\ storage' = SaveUpload(storage, kind, sid, payload)
           /\ IF Rejection(kind, payload) # ""
                 THEN Finish(p, Response(400, Rejection(kind, payload)))
                 ELSE Goto(p, IF user # NoUser THEN "consume_user"
                                               ELSE "consume_session",
                           [LocIdle EXCEPT !.kind = kind,
                                           !.user_id = user,
                                           !.session_id = sid])
    /\ nreq' = nreq + 1
    /\ UNCHANGED <<credits_remaining, purchases, analyses, row_lock, config, limiter, registered,
                   ledger_hist, pay_hist>>

AnalyzeReceiveFrom(p, kinds, auths, cookies, max) ==
    /\ pc[p] = "idle"
    /\ nreq < max
    /\ \E kind \in kinds, auth \in auths,
          cookie \in cookies \cup DOMAIN sessions :
          \E payload \in Payloads(kind) :
             AnalyzeRequest(p, max, kind, auth, cookie, payload)

\* the requests of clients that send what they were issued
AnalyzeReceiveOf(p, kinds, cookies, max) ==
    AnalyzeReceiveFrom(p, kinds, IssuedHeaders, cookies, max)

AnalyzeReceive(p, cookies) ==
    AnalyzeReceiveOf(p, {"analyze_text"}, cookies, MaxRequests)

\* what consume_credit returns to its caller
Returned(ok) == Response(0, IF ok THEN "True" ELSE "False")

\* services.credits.consume_credit, up to its first ledger call
\* ("if user_id:", "if session_id:", "return False")
ConsumeCreditOf(p, user, sid) ==
    /\ pc[p] = "idle"
    /\ nreq < MaxRequests
    /\ IF user = NoUser /\ sid = NoSession
          THEN Finish(p, Returned(FALSE))
          ELSE Goto(p, IF user # NoUser THEN "consume_user" ELSE "consume_session",
                    [LocIdle EXCEPT !.kind = "consume_credit",
                                    !.user_id = user,
                                    !.session_id = sid])
    /\ nreq' = nreq + 1
    /\ UNCHANGED <<db, row_lock, config, limiter, registered, storage, ledger_hist, pay_hist>>

ConsumeCreditCall(p) ==
    \E user \in {NoUser} \cup Users,
       sid \in {NoSession, StaleSid} \cup DOMAIN sessions :
       ConsumeCreditOf(p, user, sid)

\* consume_user_credit_atomic: SELECT credits_remaining ... FOR UPDATE
ConsumeUserSelect(p) ==
    /\ pc[p] = "consume_user"
    /\ LET u == loc[p].user_id
       IN  /\ RowLockFree("users", u)
           /\ Acquire(p, "users", u)
           /\ Goto(p, "consume_user_update",
                   [loc[p] EXCEPT !.found = TRUE, !.seen = credits_remaining[u]])
           /\ user_calls' = [user_calls EXCEPT ![u] = @ + 1]
    /\ UNCHANGED <<db, config,
                   limiter, registered, storage, nreq, init_credits, init_sessions, user_ok,
                   pay_hist>>

\* consume_user_credit_atomic: the test, the UPDATE and the commit
ConsumeUserUpdate(p) ==
    /\ pc[p] = "consume_user_update"
    /\ LET u == loc[p].user_id
           ok == HasCredit(loc[p].found, loc[p].seen)
       IN  /\ credits_remaining' =
                 IF ok THEN [credits_remaining EXCEPT ![u] = @ - 1]
                       ELSE credits_remaining
           /\ user_ok' = IF ok THEN [user_ok EXCEPT ![u] = @ + 1] ELSE user_ok
           /\ Release(p, "users", u)
           /\ IF loc[p].kind = "consume_credit" /\ (ok \/ loc[p].session_id = NoSession)
                 THEN Finish(p, Returned(ok))
                 ELSE Goto(p, AfterUserAttempt(ok), [loc[p] EXCEPT !.touched = ok])
    /\ UNCHANGED <<sessions, purchases, analyses, config,
                   limiter, registered, storage, nreq, init_credits,
                   init_sessions, user_calls, pay_hist>>

\* consume_session_credit_atomic: SELECT credits_temp_remaining ... FOR UPDATE
ConsumeSessionSelect(p) ==
    /\ pc[p] = "consume_session"
    /\ LET s == loc[p].session_id
           found == s \in DOMAIN sessions
       IN  /\ found => RowLockFree("sessions", s)
           /\ IF found THEN Acquire(p, "sessions", s) ELSE UNCHANGED row_lock
           /\ Goto(p, "consume_session_update",
                   [loc[p] EXCEPT !.found = found,
                                  !.seen = IF found THEN sessions[s] ELSE 0])
    /\ UNCHANGED <<db, config, limiter, registered, storage, nreq, ledger_hist, pay_hist>>

\* consume_session_credit_atomic: the test, the UPDATE and the commit; then
\* consume_credit's return, or the handler's 402 when neither attempt succeeded
ConsumeSessionUpdate(p) ==
    /\ pc[p] = "consume_session_update"
    /\ LET s == loc[p].session_id
           ok == HasCredit(loc[p].found, loc[p].seen)
       IN  /\ sessions' = IF ok THEN [sessions EXCEPT ![s] = @ - 1] ELSE sessions
           /\ Release(p, "sessions", s)
           /\ IF loc[p].kind = "consume_credit"
                 THEN Finish(p, Returned(ok))
                 ELSE IF ok THEN Goto(p, "ai", [loc[p] EXCEPT !.touched = TRUE])
                            ELSE Finish(p, Response(402, "Sem creditos disponiveis."))
    /\ UNCHANGED <<credits_remaining, purchases, analyses, config,
                   limiter, registered, storage, nreq,
                   ledger_hist, pay_hist>>

\* "if not result.get("ok"): return ..., 502" comes before record_analysis
RecordRegardless(rows, ai_ok, row) == Append(rows, row)
RecordAnalysis(rows, ai_ok, row) == IF ai_ok THEN Append(rows, row) ELSE rows

\* analyze_text / analyze_photo after the gate: the AI call, then record_analysis
AnalyzeAi(p) ==
    /\ pc[p] = "ai"
    /\ \E ai_ok \in BOOLEAN :
          /\ analyses' = RecordAnalysis(analyses, ai_ok,
                             [user_id |-> loc[p].user_id,
                              session_id |-> loc[p].session_id,
                              type |-> loc[p].kind])
          /\ IF ai_ok
                THEN Finish(p, Response(200, "analysis"))
                ELSE Finish(p, Response(502, "Falha na analise de IA."))
    /\ UNCHANGED <<credits_remaining, sessions, purchases, row_lock, config,
                   limiter, registered, storage,
                   nreq, ledger_hist, pay_hist>>

Analyze(p, cookies) ==
    \/ AnalyzeReceive(p, cookies)
    \/ ConsumeUserSelect(p)
    \/ ConsumeUserUpdate(p)
    \/ ConsumeSessionSelect(p)
    \/ ConsumeSessionUpdate(p)
    \/ AnalyzeAi(p)

----------------------------------------------------------------------------
(* Sessions: app.py home, gate_login, credits_status; services/credits.py *)

\* a response that carries values
Reply(code, body, data) == [code |-> code, body |-> body, data |-> data]

\* an optional value: None, or the value read
None == <<>>
Some(x) == <<x>>

\* _ensure_session_persisted: "if not row: INSERT ... FREE_CREDITS"
EnsureSessionPersisted(rows, sid) ==
    IF sid \in DOMAIN rows THEN rows ELSE rows @@ (sid :> free_credits)

\* the values ensure_temp_session's callers configure as FREE_CREDITS
FreeValues == {FreeCreditsDefault, ServiceFreeCredits, FreeCreditsHigh}

\* get_or_create_session on the given id, as services.credits.ensure_temp_session
\* calls it; the reply is the SessionTemp balance get_or_create_session returns
EnsureTempSessionOf(p, sid, free) ==
    /\ pc[p] = "idle"
    /\ nreq < MaxRequests
    /\ sessions' = GetOrCreateSession(sid, free)
    /\ Finish(p, Reply(0, "SessionTemp", sessions'[sid]))
    /\ nreq' = nreq + 1
    /\ UNCHANGED <<credits_remaining, purchases, analyses, row_lock, config,
                   limiter, registered, storage,
                   ledger_hist, pay_hist>>

EnsureTempSession(p) ==
    \E sid \in {StaleSid} \cup DOMAIN sessions, free \in FreeValues :
       EnsureTempSessionOf(p, sid, free)

\* home: a request without the cookie gets a new session
Home(p) ==
    /\ pc[p] = "idle"
    /\ nreq < MaxRequests
    /\ \E cookie \in {NoSession} \cup DOMAIN sessions :
          LET created_now == cookie = NoSession
          IN  /\ created_now => Cardinality(DOMAIN sessions) < MaxSessions
              /\ sessions' = IF created_now
                                THEN GetOrCreateSession(NewSessionId, free_credits)
                                ELSE sessions
    /\ Finish(p, Response(200, "index.html"))
    /\ nreq' = nreq + 1
    /\ UNCHANGED <<credits_remaining, purchases, analyses, row_lock, config,
                   limiter, registered, storage,
                   ledger_hist, pay_hist>>

\* gate_login / credits_status: _ensure_session_created, _ensure_session_persisted
SessionEnsure(p) ==
    /\ pc[p] = "idle"
    /\ nreq < MaxRequests
    /\ \E kind \in {"gate_login", "credits_status"},
          auth \in IssuedHeaders,
          cookie \in {NoSession, StaleSid} \cup DOMAIN sessions :
          LET user == ResolveUser(auth)
              created_now == cookie = NoSession
              sid == IF created_now THEN NewSessionId ELSE cookie
          IN  /\ created_now => Cardinality(DOMAIN sessions) < MaxSessions
              /\ sessions' =
                    EnsureSessionPersisted(
                       IF created_now THEN GetOrCreateSession(sid, free_credits)
                                      ELSE sessions, sid)
              /\ Goto(p, "session_read",
                      [LocIdle EXCEPT !.kind = kind, !.user_id = user,
                                      !.session_id = sid])
    /\ nreq' = nreq + 1
    /\ UNCHANGED <<credits_remaining, purchases, analyses, row_lock, config,
                   limiter, registered, storage,
                   ledger_hist, pay_hist>>

\* _has_any_credit
HasUserCredit(user, sid) == user # NoUser /\ credits_remaining[user] > 0
HasAnyCredit(user, sid) ==
    \/ user # NoUser /\ credits_remaining[user] > 0
    \/ sid \in DOMAIN sessions /\ sessions[sid] > 0

\* gate_login's payload: credit somewhere; a logged-in user without credit;
\* an anonymous caller without credit
GateLoginPayload(user, sid) ==
    IF HasAnyCredit(user, sid)
       THEN [require_login |-> FALSE, logged_in |-> user # NoUser]
    ELSE IF user # NoUser
       THEN [require_login |-> FALSE, logged_in |-> TRUE, need_purchase |-> TRUE]
    ELSE [require_login |-> TRUE, logged_in |-> FALSE,
          reason |-> "Sem creditos; faca login para comprar."]

\* gate_login's answer after _has_any_credit; credits_status's reads and payload
SessionRead(p) ==
    /\ pc[p] = "session_read"
    /\ LET user == loc[p].user_id
           sid == loc[p].session_id
       IN  IF loc[p].kind = "gate_login"
              THEN Finish(p, Reply(200, "gate_login", GateLoginPayload(user, sid)))
              ELSE Finish(p, Reply(200, "credits_status",
                       [session |-> IF sid \in DOMAIN sessions
                                       THEN Some(sessions[sid]) ELSE None,
                        user |-> IF user # NoUser
                                    THEN Some(credits_remaining[user]) ELSE None,
                        free_credits |-> free_credits]))
    /\ UNCHANGED <<db, row_lock, config,
                   limiter, registered, storage, nreq, ledger_hist, pay_hist>>

----------------------------------------------------------------------------
(* Purchases: app.py purchase, payments/mock.py, payments/pagseguro.py *)

PackageInputs == {0 - 5, 0, 7, 10}

\* MockProvider.start_checkout's price_table, "package -- 10, 20, 50" in the DDL
PriceTable == {10, 20, 50}

\* the DDL's "status -- 'pending' | 'paid' | 'failed'"
PurchaseStatuses == {"pending", "paid", "failed"}

\* increment_user_credits: one UPDATE, committed on return
SetFromInitialRead(balances, u, amount) ==
    [balances EXCEPT ![u] = init_credits[u] + amount]
IncrementUserCredits(balances, u, amount) == [balances EXCEPT ![u] = @ + amount]

\* add_credits_to_user (the ledger's grant): adds the amount to the user's
\* balance in a transaction of its own
AddCreditsToUser(balances, u, amount) == [balances EXCEPT ![u] = @ + amount]

\* purchase: "int(data.get("package") or 10)"
RequestedPackage(pkg) == IF pkg = 0 THEN DefaultPackage ELSE pkg

\* purchase up to MockProvider.start_checkout's create_purchase
PurchaseRequest(p, auth, pkg) ==
    /\ pc[p] = "idle"
    /\ nreq < MaxRequests
    /\ LET user == ResolveUser(auth)
       IN IF user = NoUser
             THEN /\ Finish(p, Response(401, "login"))
                  /\ UNCHANGED <<purchases, granted>>
             ELSE IF provider = "pagseguro"
                     THEN /\ Finish(p, Response(200, "checkout_not_ok"))
                          /\ UNCHANGED <<purchases, granted>>
                     ELSE /\ Len(purchases) < MaxPurchases
                          /\ purchases' = Append(purchases,
                                [user_id |-> user,
                                 package |-> RequestedPackage(pkg),
                                 status |-> "paid",
                                 provider_ref |-> "MOCK-OK"])
                          /\ granted' = Append(granted, 0)
                          /\ Goto(p, "mock_credit",
                                  [LocIdle EXCEPT !.kind = "purchase",
                                                  !.user_id = user,
                                                  !.purchase_id = Len(purchases) + 1,
                                                  !.package = RequestedPackage(pkg)])
    /\ nreq' = nreq + 1
    /\ UNCHANGED <<credits_remaining, sessions, analyses, row_lock, config,
                   limiter, registered, storage,
                   ledger_hist, log>>

PurchaseReceive(p) ==
    /\ pc[p] = "idle"
    /\ nreq < MaxRequests
    /\ \E auth \in AuthInputs, pkg \in PackageInputs :
          PurchaseRequest(p, auth, pkg)

\* MockProvider.start_checkout: increment_user_credits, then purchase's response
MockCredit(p) ==
    /\ pc[p] = "mock_credit"
    /\ LET u == loc[p].user_id
       IN  /\ RowLockFree("users", u)
           /\ credits_remaining' =
                 IncrementUserCredits(credits_remaining, u, loc[p].package)
           /\ granted' = [granted EXCEPT ![loc[p].purchase_id] = @ + loc[p].package]
           /\ Finish(p, Response(200, "checkout_ok"))
    /\ UNCHANGED <<sessions, purchases, analyses, row_lock, config,
                   limiter, registered, storage, nreq,
                   ledger_hist, log>>

Purchase(p) ==
    \/ PurchaseReceive(p)
    \/ MockCredit(p)

----------------------------------------------------------------------------
(* Payment webhook: app.py webhook_pagbank *)

\* str.upper / str.lower on the status strings in use
Upper(s) ==
    CASE s = "paid" -> "PAID"
      [] s = "approved" -> "APPROVED"
      [] s = "canceled" -> "CANCELED"
      [] s = "pending" -> "PENDING"
      [] s = "failed" -> "FAILED"
      [] OTHER -> s

Lower(s) ==
    CASE s = "PAID" -> "paid"
      [] s = "APPROVED" -> "approved"
      [] s = "CANCELED" -> "canceled"
      [] s = "PENDING" -> "pending"
      [] s = "FAILED" -> "failed"
      [] OTHER -> s

PaidStatuses == {"PAID", "APPROVED", "AUTHORIZED", "CAPTURED", "SUCCEEDED"}

\* _is_paid_status
IsPaidStatusAnyNonEmpty(s) == s # ""
IsPaidStatus(s) == s # "" /\ Upper(s) \in PaidStatuses

\* hex(HMAC_SHA256(key, raw_body)): a value only the key and the body determine
Hmac(key, body) == <<key, body>>
NoSignature == <<>>

\* _verify_pagbank_signature
VerifyAcceptsMissing(body, header_sig) ==
    \/ secret = ""
    \/ header_sig = NoSignature
    \/ Hmac(secret, body) = header_sig
VerifyWithoutBypass(body, header_sig) ==
    header_sig # NoSignature /\ Hmac(secret, body) = header_sig
VerifyPagbankSignature(body, header_sig) ==
    IF secret = "" THEN TRUE
    ELSE IF header_sig = NoSignature THEN FALSE
    ELSE Hmac(secret, body) = header_sig

OrderRefs == {"ORDER-XYZ-123", "ORDER-ABC-456"}
RefInputs == {"", "MOCK-OK"} \cup OrderRefs

\* the webhook's JSON payload, with the fields the handler reads
Body(reference_id, id, status) ==
    [reference_id |-> reference_id, referenceId |-> "", order_id |-> "",
     id |-> id, status |-> status]

\* "payload.get("reference_id") or payload.get("referenceId") or
\*  payload.get("order_id") or payload.get("id") or """
ProviderRef(body) ==
    IF body.reference_id # "" THEN body.reference_id
    ELSE IF body.referenceId # "" THEN body.referenceId
    ELSE IF body.order_id # "" THEN body.order_id
    ELSE body.id

\* "SELECT ... FROM purchases WHERE provider_ref = ?"
MatchOrOldestPending(rows, ref) ==
    LET found == {i \in 1 .. Len(rows) : rows[i].provider_ref = ref}
    IN  IF found # {} THEN found
        ELSE {i \in 1 .. Len(rows) : rows[i].status = "pending"}
MatchingPurchases(rows, ref) ==
    {i \in 1 .. Len(rows) : rows[i].provider_ref = ref}

\* the payloads delivered: the reference in reference_id, or only in id
Bodies(statuses) ==
    {Body(ref, "", st) : ref \in RefInputs, st \in statuses}
    \cup {Body("", "ORDER-ABC-456", st) : st \in statuses}
PaidInputs == {"PAID", "approved"}
StatusInputs == PaidInputs \cup {"", "CANCELED"}
SigInputs(body) ==
    {NoSignature, Hmac(secret, body), Hmac(WrongKey, body),
     Hmac(secret, [body EXCEPT !.status = "FAILED"])}

\* "int(row["package"] or 10)"
RowPackage(row) == IF row.package = 0 THEN DefaultPackage ELSE row.package

\* "new_status = status.lower() or "pending""
NewStatus(status) == IF Lower(status) = "" THEN "pending" ELSE Lower(status)

\* the idempotence test: "if current_status == "paid""
NeverAlreadyPaid(current_status) == FALSE
AlreadyPaidUpperCase(current_status) == current_status = "PAID"
AlreadyPaid(current_status) == current_status = "paid"

\* the status the except branch writes when the credit fails
KeepPaidOnCreditFailure == "paid"
StatusOnCreditFailure == "pending"

\* a completed delivery: its payload's status, its answer, what it credited,
\* whether it wrote, and the purchase's status when it answered
Delivery(pid, status, body, credited, touched, rows) ==
    [purchase_id |-> pid, status |-> status, body |-> body, credited |-> credited,
     touched |-> touched, purchase_status |-> rows[pid].status]

SetStatus(rows, pid, status) == [rows EXCEPT ![pid].status = status]

\* webhook_pagbank up to and including the SELECT of the purchase
\* (fetchone() on several rows with the same provider_ref: any of them, pid)
WebhookReceiveOf(p, max, body, header_sig, pid) ==
    /\ pc[p] = "idle"
    /\ nreq < max
    /\    LET ref == ProviderRef(body)
              status == Upper(body.status)
              matches == MatchingPurchases(purchases, ref)
          IN  /\ pid \in matches \cup {NoPurchase}
              /\ IF ~VerifyPagbankSignature(body, header_sig)
                    THEN /\ pid = NoPurchase
                         /\ Finish(p, Response(400, "signature_invalid"))
                         /\ log' = log
                 ELSE IF ref = ""
                    THEN /\ pid = NoPurchase
                         /\ Finish(p, Response(200, "skipped"))
                         /\ log' = log
                 ELSE IF matches = {}
                    THEN /\ pid = NoPurchase
                         /\ Finish(p, Response(200, "unknown_purchase"))
                         /\ log' = log
                 ELSE /\ pid # NoPurchase
                      /\ LET row == purchases[pid]
                             current_status == Lower(row.status)
                             l == [LocIdle EXCEPT !.kind = "webhook",
                                                  !.user_id = row.user_id,
                                                  !.purchase_id = pid,
                                                  !.package = RowPackage(row),
                                                  !.status = status]
                         IN  IF IsPaidStatus(status)
                                THEN IF AlreadyPaid(current_status)
                                        THEN /\ Finish(p, Response(200, "idempotent"))
                                             /\ log' = Append(log,
                                                   Delivery(pid, status, "idempotent",
                                                            0, FALSE, purchases))
                                        ELSE /\ Goto(p, "wh_mark_paid", l)
                                             /\ log' = log
                                ELSE IF NewStatus(status) # current_status
                                        THEN /\ Goto(p, "wh_set_status", l)
                                             /\ log' = log
                                        ELSE /\ Finish(p, Response(200, "status"))
                                             /\ log' = Append(log,
                                                   Delivery(pid, status, "status",
                                                            0, FALSE, purchases))
    /\ nreq' = nreq + 1
    /\ UNCHANGED <<db, row_lock, config, limiter, registered, storage, ledger_hist, granted>>

WebhookReceive(p, max, statuses) ==
    /\ pc[p] = "idle"
    /\ nreq < max
    /\ \E body \in Bodies(statuses) :
          \E header_sig \in SigInputs(body),
             pid \in {NoPurchase} \cup (1 .. Len(purchases)) :
             WebhookReceiveOf(p, max, body, header_sig, pid)

\* "UPDATE purchases SET status = 'paid'" inside the handler's transaction
WebhookMarkPaid(p) ==
    /\ pc[p] = "wh_mark_paid"
    /\ RowLockFree("purchases", loc[p].purchase_id)
    /\ Acquire(p, "purchases", loc[p].purchase_id)
    /\ Goto(p, "wh_credit", loc[p])
    /\ UNCHANGED <<db, config, limiter, registered, storage, nreq, ledger_hist, pay_hist>>

\* add_credits_to_user in a transaction of its own, or the except branch:
\* the status is written back and the handler answers 500
WebhookCredit(p) ==
    /\ pc[p] = "wh_credit"
    /\ LET u == loc[p].user_id
           pid == loc[p].purchase_id
       IN  \E credit_fails \in BOOLEAN :
              IF credit_fails
                 THEN /\ purchases' = SetStatus(purchases, pid, StatusOnCreditFailure)
                      /\ Release(p, "purchases", pid)
                      /\ Finish(p, Response(500, "credit_failed"))
                      /\ log' = Append(log,
                            Delivery(pid, loc[p].status, "credit_failed", 0,
                                     purchases' # purchases, purchases'))
                      /\ UNCHANGED <<credits_remaining, granted>>
                 ELSE /\ RowLockFree("users", u)
                      /\ credits_remaining' =
                            AddCreditsToUser(credits_remaining, u, loc[p].package)
                      /\ granted' = [granted EXCEPT ![pid] = @ + loc[p].package]
                      /\ Goto(p, "wh_commit", [loc[p] EXCEPT !.touched = TRUE])
                      /\ UNCHANGED <<purchases, row_lock, log>>
    /\ UNCHANGED <<sessions, analyses, config, limiter, registered, storage, nreq, ledger_hist>>

\* the handler's transaction commits: the purchase becomes paid
WebhookCommit(p) ==
    /\ pc[p] = "wh_commit"
    /\ LET pid == loc[p].purchase_id
       IN  /\ purchases' = SetStatus(purchases, pid, "paid")
           /\ Release(p, "purchases", pid)
           /\ Finish(p, Response(200, "credited"))
           /\ log' = Append(log,
                 Delivery(pid, loc[p].status, "credited", loc[p].package, TRUE,
                          purchases'))
    /\ UNCHANGED <<credits_remaining, sessions, analyses, config,
                   limiter, registered, storage, nreq,
                   ledger_hist, granted>>

\* the non-paid branch: "UPDATE purchases SET status = new_status", committed
WebhookSetStatus(p) ==
    /\ pc[p] = "wh_set_status"
    /\ LET pid == loc[p].purchase_id
       IN  /\ RowLockFree("purchases", pid)
           /\ purchases' = SetStatus(purchases, pid, NewStatus(loc[p].status))
           /\ Finish(p, Response(200, "status"))
           /\ log' = Append(log,
                 Delivery(pid, loc[p].status, "status", 0, purchases' # purchases,
                          purchases'))
    /\ UNCHANGED <<credits_remaining, sessions, analyses, row_lock, config,
                   limiter, registered, storage, nreq,
                   ledger_hist, granted>>

Webhook(p, max, statuses) ==
    \/ WebhookReceive(p, max, statuses)
    \/ WebhookMarkPaid(p)
    \/ WebhookCredit(p)
    \/ WebhookCommit(p)
    \/ WebhookSetStatus(p)

----------------------------------------------------------------------------
(* Initial states *)

InitProcs ==
    /\ storage = {}
    /\ pc = [p \in Procs |-> "idle"]
    /\ loc = [p \in Procs |-> LocIdle]
    /\ resp = [p \in Procs |-> NoResponse]
    /\ nreq = 0
    /\ row_lock = {}

\* app.py: SimpleRateLimiter(window_s=60, max_requests=RATE_LIMIT_PER_MINUTE,
\* min_interval_s=RATE_LIMIT_MIN_INTERVAL_MS / 1000.0), nothing recorded yet
InitLimiterDefault ==
    /\ window_s = WindowDefault
    /\ max_requests = RateLimitPerMinute
    /\ min_interval_s = MinIntervalDefault
    /\ events = [k \in Keys |-> <<>>]
    /\ last_call = [k \in {} |-> 0]
    /\ clock = 0
    /\ admitted = [k \in Keys |-> <<>>]

\* OpenAIClient.__init__ under its defaults, with a key and the SDK present
InitGatewayDefault ==
    /\ retries = RetriesDefault
    /\ mock = FALSE

\* the handlers of the ledger, the sessions and the payments: requests the
\* limiter admitted, the limiter and the gateway configured as deployed
InitWorkers ==
    /\ InitProcs
    /\ InitLimiterDefault
    /\ InitGatewayDefault
    /\ registered = <<>>

InitLedger ==
    /\ credits_remaining \in [Users -> 0 .. MaxBalance]
    /\ init_credits = credits_remaining
    /\ user_calls = [u \in Users |-> 0]
    /\ user_ok = [u \in Users |-> 0]
    /\ free_credits \in {FreeCreditsDefault, FreeCreditsHigh}
    /\ \E b \in {0, free_credits} : sessions = (1 :> b)
    /\ init_sessions = sessions
    /\ analyses = <<>>

InitNoPurchases ==
    /\ purchases = <<>>
    /\ granted = <<>>
    /\ log = <<>>
    /\ provider = "mock"
    /\ secret = ""

\* the pending purchases a checkout has recorded (app.py, "COMO TESTAR O WEBHOOK")
PendingPurchases ==
    << [user_id |-> 1, package |-> 10, status |-> "pending",
        provider_ref |-> "ORDER-XYZ-123"],
       [user_id |-> 2, package |-> 20, status |-> "pending",
        provider_ref |-> "ORDER-ABC-456"] >>

InitPayments ==
    /\ credits_remaining \in {[u \in Users |-> 0], [u \in Users |-> MaxBalance]}
    /\ init_credits = credits_remaining
    /\ user_calls = [u \in Users |-> 0]
    /\ user_ok = [u \in Users |-> 0]
    /\ free_credits = FreeCreditsDefault
    /\ sessions = (1 :> free_credits)
    /\ init_sessions = sessions
    /\ analyses = <<>>
    /\ purchases = PendingPurchases
    /\ granted = [i \in 1 .. Len(purchases) |-> 0]
    /\ log = <<>>
    /\ secret \in {"", "teste123"}

LedgerInit == InitWorkers /\ InitLedger /\ InitNoPurchases
LedgerNext == \E p \in Procs : Analyze(p, {StaleSid})
SpecLedger == LedgerInit /\ [][LedgerNext]_vars

\* consume_credit calls, one after the other
ConsumeNext ==
    \E p \in {1} :
       \/ ConsumeCreditCall(p)
       \/ ConsumeUserSelect(p)
       \/ ConsumeUserUpdate(p)
       \/ ConsumeSessionSelect(p)
       \/ ConsumeSessionUpdate(p)
SpecConsume == LedgerInit /\ [][ConsumeNext]_vars

AnalyzeKinds == {"analyze_text", "analyze_photo"}

AnalyzeSteps(p) ==
    \/ ConsumeUserSelect(p)
    \/ ConsumeUserUpdate(p)
    \/ ConsumeSessionSelect(p)
    \/ ConsumeSessionUpdate(p)
    \/ AnalyzeAi(p)

\* analysis requests of both kinds, one after the other
GateNext ==
    \E p \in {1} :
       \/ AnalyzeReceiveOf(p, AnalyzeKinds, {NoSession, StaleSid}, MaxRequests)
       \/ AnalyzeSteps(p)
SpecGate == LedgerInit /\ [][GateNext]_vars

\* concurrent analysis requests of both kinds, sessions created on the way
AnalyzeInit ==
    /\ InitWorkers
    /\ InitNoPurchases
    /\ credits_remaining \in {[u \in Users |-> 0], [u \in Users |-> 1]}
    /\ init_credits = credits_remaining
    /\ user_calls = [u \in Users |-> 0]
    /\ user_ok = [u \in Users |-> 0]
    /\ free_credits \in {FreeCreditsDefault, FreeCreditsHigh}
    /\ sessions = (1 :> free_credits)
    /\ init_sessions = sessions
    /\ analyses = <<>>
AnalyzeNext ==
    \E p \in Pair :
       \/ AnalyzeReceiveOf(p, AnalyzeKinds, {NoSession}, MaxRequests)
       \/ AnalyzeSteps(p)
SpecAnalyze == AnalyzeInit /\ [][AnalyzeNext]_vars

\* the session endpoints next to concurrent analysis requests
SessionInit ==
    /\ InitWorkers
    /\ InitNoPurchases
    /\ credits_remaining \in {[u \in Users |-> 0], [u \in Users |-> 1]}
    /\ init_credits = credits_remaining
    /\ user_calls = [u \in Users |-> 0]
    /\ user_ok = [u \in Users |-> 0]
    /\ free_credits \in {FreeCreditsDefault, FreeCreditsHigh}
    /\ \E b \in {0, free_credits} : sessions = (1 :> b)
    /\ init_sessions = sessions
    /\ analyses = <<>>
SessionNext ==
    \E p \in Pair :
       \/ Home(p)
       \/ SessionEnsure(p)
       \/ SessionRead(p)
       \/ EnsureTempSession(p)
       \/ AnalyzeReceiveOf(p, {"analyze_text"}, {NoSession}, MaxRequests)
       \/ AnalyzeSteps(p)
SpecSession == SessionInit /\ [][SessionNext]_vars

\* concurrent webhook deliveries of any status
WebhookInit == InitWorkers /\ InitPayments /\ provider = "pagseguro"
WebhookNext == \E p \in Procs : Webhook(p, MaxOverlap, StatusInputs)
SpecWebhook == WebhookInit /\ [][WebhookNext]_vars

\* concurrent webhook deliveries that all carry a paid status
PaidNext ==
    \E p \in Procs :
       \/ WebhookReceive(p, MaxOverlap, PaidInputs)
       \/ WebhookMarkPaid(p)
       \/ WebhookCredit(p)
       \/ WebhookCommit(p)
SpecPaid == WebhookInit /\ [][PaidNext]_vars

\* webhook deliveries one after the other: a single worker
SeqNext == \E p \in {1} : Webhook(p, MaxDeliveries, StatusInputs)
SpecSeq == WebhookInit /\ [][SeqNext]_vars

\* checkouts with the mock provider and webhook deliveries, one after the other
CheckoutInit ==
    /\ InitWorkers
    /\ credits_remaining \in {[u \in Users |-> 0], [u \in Users |-> MaxBalance]}
    /\ init_credits = credits_remaining
    /\ user_calls = [u \in Users |-> 0]
    /\ user_ok = [u \in Users |-> 0]
    /\ free_credits = FreeCreditsDefault
    /\ sessions = (1 :> free_credits)
    /\ init_sessions = sessions
    /\ analyses = <<>>
    /\ purchases = <<>>
    /\ granted = <<>>
    /\ log = <<>>
    /\ provider = "mock"
    /\ secret \in {"", "teste123"}
CheckoutNext ==
    \E p \in {1} :
       \/ Purchase(p)
       \/ Webhook(p, MaxDeliveries, StatusInputs)
SpecCheckout == CheckoutInit /\ [][CheckoutNext]_vars

\* an upload or a text with any Authorization header, followed to its answer
UploadNext ==
    \E p \in {1} :
       \/ AnalyzeReceiveFrom(p, AnalyzeKinds, AuthInputs, {NoSession, StaleSid},
                             MaxAnalyses)
       \/ AnalyzeSteps(p)
SpecUpload == AnalyzeInit /\ [][UploadNext]_vars

\* a webhook delivery and its redelivery, one after the other
RetryNext == \E p \in {1} : Webhook(p, MaxOverlap, StatusInputs)
SpecRetry == WebhookInit /\ [][RetryNext]_vars

\* concurrent /purchase requests under either provider
PurchaseInit ==
    /\ InitWorkers
    /\ InitPayments
    /\ provider \in {"mock", "pagseguro"}
PurchaseNext == \E p \in Pair : Purchase(p)
SpecPurchase == PurchaseInit /\ [][PurchaseNext]_vars

\* grants (mock checkouts, paid webhook deliveries) next to consumes
GrantsInit ==
    /\ InitWorkers
    /\ InitPayments
    /\ provider = "mock"
GrantsNext ==
    \E p \in Pair :
       \/ Analyze(p, {StaleSid})
       \/ Purchase(p)
       \/ WebhookReceive(p, MaxRequests, PaidInputs)
       \/ WebhookMarkPaid(p)
       \/ WebhookCredit(p)
       \/ WebhookCommit(p)
SpecGrants == GrantsInit /\ [][GrantsNext]_vars

\* the whole application
Init ==
    /\ InitWorkers
    /\ InitPayments
    /\ provider \in {"mock", "pagseguro"}
Next ==
    \E p \in Procs :
       \/ Analyze(p, {NoSession, StaleSid})
       \/ Purchase(p)
       \/ Webhook(p, MaxRequests, StatusInputs)
Spec == Init /\ [][Next]_vars

----------------------------------------------------------------------------
(* Properties *)

Min(a, b) == IF a < b THEN a ELSE b
Max(a, b) == IF a > b THEN a ELSE b
PurchaseIds == 1 .. Len(purchases)
Consuming(u) == {p \in Procs : pc[p] = "consume_user_update" /\ loc[p].user_id = u}

\* C1: every user's credits_remaining and every session's
\* credits_temp_remaining is >= 0 in every reachable state of the application.
\* (The claim as stated; purchase does not check the package it is given.)
CreditsNeverNegative ==
    /\ \A u \in Users : credits_remaining[u] >= 0
    /\ \A s \in DOMAIN sessions : sessions[s] >= 0

\* C2: of the consume calls made on a user whose balance started at B, with
\* no grants, at most B succeed; once no call is between its read and its
\* decrement, exactly min(N, B) of the N calls have succeeded and the balance
\* is max(0, B - N); and no two calls on the same row are between their read
\* and their decrement at once.
ConsumeExactlyMin ==
    \A u \in Users :
       /\ Cardinality(Consuming(u)) <= 1
       /\ user_ok[u] <= init_credits[u]
       /\ credits_remaining[u] = init_credits[u] - user_ok[u]
       /\ credits_remaining[u] >= 0
       /\ Consuming(u) = {} =>
             /\ user_ok[u] = Min(user_calls[u], init_credits[u])
             /\ credits_remaining[u] = Max(0, init_credits[u] - user_calls[u])

\* C2 witness: two calls on a user who started with one credit have both
\* returned, one True and one False
ConsumeTwoOnOneCredit ==
    \E u \in Users :
       /\ init_credits[u] = 1
       /\ user_calls[u] = 2
       /\ user_ok[u] = 1
       /\ Consuming(u) = {}
       /\ credits_remaining[u] = 0

\* the balance a user has gained since the start (no consume in these runs)
Gained(u) == credits_remaining[u] - init_credits[u]
Owner(pid) == purchases[pid].user_id
LogOf(pid) == SelectSeq(log, LAMBDA d : d.purchase_id = pid)

\* C3: for any number of paid-status deliveries for one provider_ref, also
\* overlapping ones, the owner's balance is increased by the purchase's
\* package once in total: the gain is the package or, before the credit,
\* nothing.  (The claim as stated; each user owns one purchase here.)
PaidDeliveriesCreditOnce ==
    \A pid \in PurchaseIds : Gained(Owner(pid)) \in {0, RowPackage(purchases[pid])}

\* C4: two deliveries of the same paid-status payload, one straight after the
\* other, the first of which credited the purchase: together they credit the
\* package once, the purchase is paid after each, and the second writes
\* nothing and answers idempotent.
ReplayCreditsOnce ==
    \A i \in 1 .. Len(log) - 1 :
       LET a == log[i]
           b == log[i + 1]
       IN  (/\ a.purchase_id = b.purchase_id
            /\ a.status = b.status
            /\ IsPaidStatus(a.status)
            /\ a.body = "credited")
           => /\ a.credited = RowPackage(purchases[a.purchase_id])
              /\ a.purchase_status = "paid"
              /\ b.body = "idempotent"
              /\ b.credited = 0
              /\ ~b.touched
              /\ b.purchase_status = "paid"

\* C4 witness: a credited paid delivery directly followed by a delivery of the
\* same payload, with the purchase's owner holding exactly one package more
ReplayedOnce ==
    \E i \in 1 .. Len(log) - 1 :
       /\ log[i].purchase_id = log[i + 1].purchase_id
       /\ log[i].status = "PAID"
       /\ log[i + 1].status = "PAID"
       /\ log[i].body = "credited"
       /\ Len(LogOf(log[i].purchase_id)) = 2
       /\ Gained(Owner(log[i].purchase_id)) = RowPackage(purchases[log[i].purchase_id])

\* C5: whatever mix of paid and non-paid statuses is delivered for a
\* purchase, the credit granted on its account never exceeds its package.
\* (The claim as stated.)
GrantedAtMostPackage ==
    \A pid \in PurchaseIds : granted[pid] <= RowPackage(purchases[pid])

\* the step in which worker p takes the except branch of the credit
CreditFailureStep(p) == pc[p] = "wh_credit" /\ pc'[p] = "idle"

\* C6: a paid purchase stays paid on every step other than a failed credit
\* grant.  (The claim as stated.)
PaidStaysPaid ==
    [][\A pid \in PurchaseIds :
          (/\ purchases[pid].status = "paid"
           /\ ~ \E p \in Procs : CreditFailureStep(p))
          => purchases'[pid].status = "paid"]_vars

\* C7: in every state other requests can read, a purchase is paid exactly
\* when its package has been added to the owner's balance.
\* (The claim as stated.)
PaidExactlyWhenCredited ==
    \A pid \in PurchaseIds :
       (purchases[pid].status = "paid") <=> (granted[pid] = RowPackage(purchases[pid]))

\* C8: the step in which the credit grant fails leaves the purchase pending
\* and unlocked, every balance as it was, and answers 500 credit_failed.
CreditFailureReverts ==
    [][\A p \in Procs :
          CreditFailureStep(p)
          => /\ purchases'[loc[p].purchase_id].status = "pending"
             /\ credits_remaining' = credits_remaining
             /\ sessions' = sessions
             /\ granted' = granted
             /\ resp'[p] = Response(500, "credit_failed")
             /\ ~ \E l \in row_lock' : l[3] = p]_vars

\* C8 witness: a delivery answered credit_failed, and a later paid-status
\* delivery for the same purchase credited it
CreditedAfterFailure ==
    \E i \in 1 .. Len(log), j \in 1 .. Len(log) :
       /\ i < j
       /\ log[i].purchase_id = log[j].purchase_id
       /\ log[i].body = "credit_failed"
       /\ log[i].purchase_status = "pending"
       /\ log[j].body = "credited"
       /\ Gained(Owner(log[i].purchase_id)) = log[j].credited

\* the steps in which worker p, and no other worker, takes a new request
Receives(p) ==
    /\ pc[p] = "idle"
    /\ nreq' = nreq + 1
    /\ \A q \in Procs \ {p} : pc'[q] = pc[q] /\ resp'[q] = resp[q]

BadSignature(body, header_sig) ==
    header_sig = NoSignature \/ header_sig # Hmac(secret, body)

\* C9: with a secret configured, the step that receives a webhook whose
\* signature header is missing or is not the HMAC of its body answers 400
\* signature_invalid and changes no table, whatever the payload.
BadSignatureRejected ==
    [][\A p \in Procs :
          (secret # "" /\ Receives(p))
          => \A body \in Bodies(StatusInputs) :
                \A header_sig \in SigInputs(body) :
                   BadSignature(body, header_sig)
                   => \A pid \in {NoPurchase} \cup PurchaseIds :
                         WebhookReceiveOf(p, MaxOverlap, body, header_sig, pid)
                         => /\ resp'[p] = Response(400, "signature_invalid")
                            /\ pc'[p] = "idle"
                            /\ db' = db
                            /\ granted' = granted
                            /\ row_lock' = row_lock]_vars

\* C9 witness: a worker has answered 400 with a secret configured while a
\* purchase was waiting for its confirmation
SignatureRejected ==
    /\ secret # ""
    /\ \E p \in Procs : resp[p] = Response(400, "signature_invalid")
    /\ \E pid \in PurchaseIds : purchases[pid].status = "pending"

\* C10: a consume whose locked read finds the user's balance positive takes
\* one credit from the user, leaves every session as it is and passes the
\* gate; a worker moves on to the session, and takes a session credit, only
\* when it has no user or its user attempt did not succeed.
UserBeforeSession ==
    [][\A p \in Procs :
          /\ (pc[p] = "consume_user_update" /\ pc'[p] # pc[p] /\ loc[p].seen > 0)
             => /\ credits_remaining' =
                      [credits_remaining EXCEPT ![loc[p].user_id] = @ - 1]
                /\ sessions' = sessions
                /\ pc'[p] = "ai"
          /\ (pc'[p] = "consume_session" /\ pc[p] # pc'[p])
             => \/ pc[p] = "idle" /\ loc'[p].user_id = NoUser
                \/ /\ pc[p] = "consume_user_update"
                   /\ loc[p].seen <= 0
                   /\ credits_remaining' = credits_remaining
          /\ (pc[p] = "consume_session_update" /\ sessions' # sessions)
             => ~loc[p].touched]_vars

\* C10 witness: user 1 / session 5 (FreeCreditsHigh) after one consume:
\* user 0 / session 5,
\* the request past the gate
UserOneSessionFive ==
    \E p \in Procs :
       /\ pc[p] = "ai"
       /\ nreq = 1
       /\ loc[p].user_id # NoUser
       /\ init_credits[loc[p].user_id] = 1
       /\ credits_remaining[loc[p].user_id] = 0
       /\ loc[p].session_id \in DOMAIN sessions
       /\ sessions[loc[p].session_id] = FreeCreditsHigh

UserPositive(u) == u # NoUser /\ credits_remaining[u] > 0
SessionPositive(s) == s \in DOMAIN sessions /\ sessions[s] > 0
Stepped(p, label) == pc[p] = label /\ pc'[p] # label
TakeOne(f, key) == [f EXCEPT ![key] = @ - 1]

\* C11: one consume_credit call, for every combination of present or absent
\* user and session and every pair of balances: it returns True iff the user
\* is present with a positive balance or the session is present with a
\* positive balance; on True exactly one balance (the user's when positive,
\* else the session's) drops by exactly 1, on False no balance changes; with
\* both identities absent it returns False at once.
ConsumeTrueIffPositive ==
    [][\A p \in Procs :
          LET u == loc[p].user_id
              s == loc[p].session_id
          IN  /\ \A user \in {NoUser} \cup Users,
                    sid \in {NoSession, StaleSid} \cup DOMAIN sessions :
                    ConsumeCreditOf(p, user, sid)
                    => /\ db' = db
                       /\ IF user = NoUser /\ sid = NoSession
                             THEN pc'[p] = "idle" /\ resp'[p] = Returned(FALSE)
                             ELSE pc'[p] # "idle"
              /\ Stepped(p, "consume_user") \/ Stepped(p, "consume_session")
                    => db' = db /\ pc'[p] # "idle"
              /\ Stepped(p, "consume_user_update")
                    => IF UserPositive(u)
                          THEN /\ pc'[p] = "idle"
                               /\ resp'[p] = Returned(TRUE)
                               /\ credits_remaining' = TakeOne(credits_remaining, u)
                               /\ sessions' = sessions
                          ELSE /\ db' = db
                               /\ IF s = NoSession
                                     THEN pc'[p] = "idle" /\ resp'[p] = Returned(FALSE)
                                     ELSE pc'[p] = "consume_session"
              /\ Stepped(p, "consume_session_update")
                    => /\ ~UserPositive(u)
                       /\ pc'[p] = "idle"
                       /\ IF SessionPositive(s)
                             THEN /\ resp'[p] = Returned(TRUE)
                                  /\ sessions' = TakeOne(sessions, s)
                                  /\ credits_remaining' = credits_remaining
                             ELSE /\ resp'[p] = Returned(FALSE)
                                  /\ db' = db]_vars

\* C11 witness: a call made with a user without credits and a session with
\* credits has returned True, the session one credit lower, the users as
\* they were
ConsumeFellBackToSession ==
    \E p \in Procs :
       /\ resp[p] = Returned(TRUE)
       /\ nreq = 1
       /\ user_calls # [u \in Users |-> 0]
       /\ credits_remaining = init_credits
       /\ sessions[1] = init_sessions[1] - 1

\* C12: an analysis request whose user (if any) has no credit goes on to the
\* session without a change, and one whose user and session both have none
\* is answered 402 from the gate: the AI step is not entered, no analysis is
\* recorded and no balance changes.
NoCreditAnswers402 ==
    [][\A p \in Procs :
          LET u == loc[p].user_id
              s == loc[p].session_id
          IN  /\ (Stepped(p, "consume_user_update") /\ ~UserPositive(u))
                    => db' = db /\ pc'[p] = "consume_session"
              /\ (/\ Stepped(p, "consume_session_update")
                  /\ ~UserPositive(u)
                  /\ ~SessionPositive(s))
                    => /\ pc'[p] = "idle"
                       /\ resp'[p] = Response(402, "Sem creditos disponiveis.")
                       /\ db' = db
              /\ (pc'[p] = "idle" /\ resp'[p].code = 402)
                    => /\ pc[p] = "consume_session_update"
                       /\ ~UserPositive(u)
                       /\ ~SessionPositive(s)]_vars

\* C12 witness: the first request, of a logged-in user, was answered 402 with
\* every balance as at the start and no analysis
GateRefused ==
    \E p \in Procs :
       /\ resp[p].code = 402
       /\ nreq = 1
       /\ user_calls # [u \in Users |-> 0]
       /\ credits_remaining = init_credits
       /\ \A s \in DOMAIN init_sessions : sessions[s] = init_sessions[s]
       /\ analyses = <<>>

RECURSIVE SumOver(_, _)
SumOver(S, f) ==
    IF S = {} THEN 0
    ELSE LET x == CHOOSE y \in S : TRUE
         IN  f[x] + SumOver(S \ {x}, f)

\* the balance a session started with: a session created on the way starts
\* with FREE_CREDITS
SessionStart(s) ==
    IF s \in DOMAIN init_sessions THEN init_sessions[s] ELSE free_credits

\* the credits taken from all balances since the start (no grants in these runs)
Decremented ==
    SumOver(Users, [u \in Users |-> init_credits[u] - credits_remaining[u]])
    + SumOver(DOMAIN sessions,
              [s \in DOMAIN sessions |-> SessionStart(s) - sessions[s]])

\* C13: a request reaches the AI call only by the step that takes one credit
\* from its user or its session; an Analysis row is added only by the step
\* in which a request that is at the AI call gets a successful result, and
\* is that request's row; so the number of Analysis rows never exceeds the
\* number of credits taken.
AnalysisAfterCreditAndAi ==
    [][/\ \A p \in Procs :
             (pc'[p] = "ai" /\ pc[p] # "ai")
             => /\ loc'[p].touched
                /\ \/ /\ pc[p] = "consume_user_update"
                      /\ credits_remaining' =
                            TakeOne(credits_remaining, loc[p].user_id)
                      /\ sessions' = sessions
                   \/ /\ pc[p] = "consume_session_update"
                      /\ sessions' = TakeOne(sessions, loc[p].session_id)
                      /\ credits_remaining' = credits_remaining
       /\ analyses' # analyses
             => \E p \in Procs :
                   /\ pc[p] = "ai"
                   /\ loc[p].touched
                   /\ pc'[p] = "idle"
                   /\ resp'[p] = Response(200, "analysis")
                   /\ analyses' = Append(analyses,
                         [user_id |-> loc[p].user_id,
                          session_id |-> loc[p].session_id,
                          type |-> loc[p].kind])
       /\ Len(analyses') <= Decremented']_vars

\* C13 witness: an analysis of each kind recorded, one paid by a user and
\* one by a session, two credits taken
TwoAnalysesTwoCredits ==
    /\ Len(analyses) = 2
    /\ {analyses[1].type, analyses[2].type} = AnalyzeKinds
    /\ Decremented = 2
    /\ \E u \in Users : credits_remaining[u] < init_credits[u]
    /\ \E s \in DOMAIN sessions : sessions[s] < SessionStart(s)

\* C14: the step in which the AI reports failure answers 502, records no
\* Analysis and changes no balance, the request's credit having been taken;
\* and no step ever raises a balance, so the credit is not given back.
AiFailureKeepsCreditSpent ==
    [][/\ \A p \in Procs :
             (pc[p] = "ai" /\ pc'[p] = "idle" /\ resp'[p].code # 200)
             => /\ resp'[p].code = 502
                /\ loc[p].touched
                /\ Decremented >= 1
                /\ db' = db
       /\ \A u \in Users : credits_remaining'[u] <= credits_remaining[u]
       /\ \A s \in DOMAIN sessions : sessions'[s] <= sessions[s]]_vars

\* C14 witness: the only request was answered 502; one credit is gone and
\* there is no Analysis
AiFailedCreditGone ==
    \E p \in Procs :
       /\ resp[p].code = 502
       /\ nreq = 1
       /\ Decremented = 1
       /\ analyses = <<>>

OwnedBy(u) == {pid \in PurchaseIds : Owner(pid) = u}

OnlyPriceTablePackages ==
    \A pid \in PurchaseIds : purchases[pid].package \in PriceTable

\* C17: no two Purchase rows share a provider_ref.  (The claim as stated.)
ProviderRefUnique ==
    \A i \in PurchaseIds, j \in PurchaseIds :
       i # j => purchases[i].provider_ref # purchases[j].provider_ref

\* C18: every Purchase's status is one of pending, paid, failed, whatever
\* verified webhooks have delivered.  (The claim as stated.)
StatusInDomain ==
    \A pid \in PurchaseIds : purchases[pid].status \in PurchaseStatuses

\* C20: get_or_create_session on an existing row, with any free_credits
\* value, returns the row's balance and changes nothing, and on an absent row
\* creates it with that value; credits_status reports the balance the row
\* has; and over all steps of the session endpoints and of the analysis
\* requests running next to them, an existing session's balance changes only
\* by a consume taking one credit from it, and a row created by the
\* application starts with FREE_CREDITS.
EnsureKeepsBalance ==
    [][/\ \A p \in Procs :
             (pc[p] = "idle" /\ resp'[p].body = "SessionTemp" /\ nreq' # nreq)
             => \A sid \in {StaleSid} \cup DOMAIN sessions, free \in FreeValues :
                   EnsureTempSessionOf(p, sid, free)
                   => IF sid \in DOMAIN sessions
                         THEN sessions' = sessions /\ resp'[p].data = sessions[sid]
                         ELSE /\ sessions' = sessions @@ (sid :> free)
                              /\ resp'[p].data = free
       /\ \A p \in Procs :
             (Stepped(p, "session_read") /\ loc[p].kind = "credits_status")
             => /\ sessions' = sessions
                /\ resp'[p].data.session = Some(sessions[loc[p].session_id])
       /\ \A s \in DOMAIN sessions :
             /\ s \in DOMAIN sessions'
             /\ sessions'[s] # sessions[s]
                   => \E p \in Procs :
                         /\ pc[p] = "consume_session_update"
                         /\ loc[p].session_id = s
                         /\ sessions'[s] = sessions[s] - 1
       /\ \A s \in DOMAIN sessions' \ DOMAIN sessions :
             \/ sessions'[s] = free_credits
             \/ \E p \in Procs, free \in FreeValues :
                   EnsureTempSessionOf(p, s, free)]_vars

\* C20 witness: with FREE_CREDITS 5, a session that has no credit left has
\* been ensured by credits_status, which reported 0, and is still at 0
ExhaustedSessionEnsured ==
    \E p \in Procs :
       /\ free_credits = FreeCreditsHigh
       /\ resp[p].body = "credits_status"
       /\ resp[p].data.session = Some(0)
       /\ sessions[1] = 0

InvalidPayload(kind, payload) ==
    \/ kind = "analyze_text" /\ payload = ""
    \/ kind = "analyze_photo" /\ payload \in {"none", "gif", "big"}

\* C21: an analysis request with empty text, without a file, with a file
\* whose extension is not .jpg/.jpeg/.png or with a file over the size limit
\* is answered 400 in the step that receives it: no consume is called, no
\* balance changes, no file is saved and no Analysis is recorded.
InvalidRejectedBeforeCreditAndSave ==
    [][\A p \in Procs :
          Receives(p)
          => \A kind \in AnalyzeKinds :
                \A payload \in Payloads(kind) :
                   InvalidPayload(kind, payload)
                   => \A auth \in AuthInputs,
                         cookie \in {NoSession, StaleSid} \cup DOMAIN sessions :
                         AnalyzeRequest(p, MaxAnalyses, kind, auth, cookie, payload)
                         => /\ pc'[p] = "idle"
                            /\ resp'[p].code = 400
                            /\ credits_remaining' = credits_remaining
                            /\ \A s \in DOMAIN sessions : sessions'[s] = sessions[s]
                            /\ user_calls' = user_calls
                            /\ storage' = storage
                            /\ analyses' = analyses]_vars

\* C21 witness: the only request so far, an x.gif upload, was answered 400;
\* nothing is stored and no credit is gone
GifRejected ==
    \E p \in Procs :
       /\ nreq = 1
       /\ resp[p] = Response(400, "Formato invalido. Use JPG/PNG.")
       /\ storage = {}
       /\ Decremented = 0

\* C22: gate_login answers require_login = true iff neither the caller's
\* user (if any) nor the caller's session has a positive balance.
\* (The claim as stated.)
RequireLoginIffNoCredit ==
    [][\A p \in Procs :
          (Stepped(p, "session_read") /\ loc[p].kind = "gate_login")
          => resp'[p].data.require_login
                = (~UserPositive(loc[p].user_id)
                   /\ ~SessionPositive(loc[p].session_id))]_vars

\* C22 amended: gate_login answers require_login = true iff the caller is
\* anonymous and the caller's session has no positive balance; a logged-in
\* caller is never asked to log in, and is told need_purchase when neither
\* balance is positive.
RequireLoginIffAnonymousNoCredit ==
    [][\A p \in Procs :
          (Stepped(p, "session_read") /\ loc[p].kind = "gate_login")
          => LET user == loc[p].user_id
                 data == resp'[p].data
             IN  /\ resp'[p].code = 200
                 /\ data.require_login
                       = (user = NoUser /\ ~SessionPositive(loc[p].session_id))
                 /\ data.logged_in = (user # NoUser)
                 /\ (user # NoUser /\ ~UserPositive(user)
                        /\ ~SessionPositive(loc[p].session_id))
                       => "need_purchase" \in DOMAIN data /\ data.need_purchase
                 /\ db' = db]_vars

\* C22 witness: a logged-in caller without credit anywhere was answered
\* require_login false, need_purchase true
LoggedInToldToPurchase ==
    \E p \in Procs :
       /\ resp[p].body = "gate_login"
       /\ resp[p].data = [require_login |-> FALSE, logged_in |-> TRUE,
                          need_purchase |-> TRUE]

\* an Authorization header that carries a bearer token issued for a user
VerifiesToUser(auth) ==
    \E u \in Users : auth = Authorization("Bearer", MakeToken(u))

\* C23: a /purchase request whose Authorization header carries no bearer
\* token that verifies to a user is answered 401 in the step that receives
\* it, records no Purchase and changes no balance, whether the provider is
\* mock or pagseguro.
PurchaseNeedsVerifiedUser ==
    [][\A p \in Procs :
          Receives(p)
          => \A auth \in AuthInputs :
                ~VerifiesToUser(auth)
                => \A pkg \in PackageInputs :
                      PurchaseRequest(p, auth, pkg)
                      => /\ pc'[p] = "idle"
                         /\ resp'[p].code = 401
                         /\ purchases' = purchases
                         /\ granted' = granted
                         /\ credits_remaining' = credits_remaining
                         /\ sessions' = sessions]_vars

\* C23 witness: with the mock provider, the only request so far was a
\* /purchase answered 401, and the purchases and balances are the initial ones
PurchaseRefused ==
    \E p \in Procs :
       /\ provider = "mock"
       /\ nreq = 1
       /\ resp[p] = Response(401, "login")
       /\ purchases = PendingPurchases
       /\ credits_remaining = init_credits

\* a delivery the signature check lets through on its merits
Verified(body, header_sig) == secret = "" \/ header_sig = Hmac(secret, body)

\* no purchase row carries the payload's reference
NoPurchaseFor(body) ==
    \A i \in 1 .. Len(purchases) : purchases[i].provider_ref # ProviderRef(body)

\* C24: a verified webhook whose payload carries no provider reference, or a
\* reference no Purchase has, is answered 200 in the step that receives it
\* and changes no Purchase row and no balance (and credits nothing).
UnmatchedWebhookAcknowledged ==
    [][\A p \in Procs :
          Receives(p)
          => \A body \in Bodies(StatusInputs) :
                (ProviderRef(body) = "" \/ NoPurchaseFor(body))
                => \A header_sig \in SigInputs(body) :
                      Verified(body, header_sig)
                      => \A pid \in {NoPurchase} \cup (1 .. Len(purchases)) :
                            WebhookReceiveOf(p, MaxOverlap, body,header_sig, pid)
                            => /\ pc'[p] = "idle"
                               /\ resp'[p].code = 200
                               /\ resp'[p].body \in {"skipped", "unknown_purchase"}
                               /\ db' = db
                               /\ granted' = granted
                               /\ log' = log]_vars

\* C24 witness: with a secret configured, a delivery for a reference no
\* purchase has was acknowledged, and both purchases are pending, uncredited
UnknownPurchaseAcknowledged ==
    \E p \in Procs :
       /\ secret # ""
       /\ resp[p] = Response(200, "unknown_purchase")
       /\ purchases = PendingPurchases
       /\ credits_remaining = init_credits
       /\ \A pid \in PurchaseIds : granted[pid] = 0

\* a status outside the accepted paid set
NonPaid(status) == Upper(status) \notin PaidStatuses

\* C25: a verified webhook whose status is not in the accepted paid set
\* changes nothing in the step that receives it and goes at most to the
\* status update of a purchase that carries its reference; that update
\* changes only the status field of that purchase, to the delivered status
\* (lower case, "pending" for an empty one), and no user or session balance.
NonPaidOnlySetsStatus ==
    [][\A p \in Procs :
          /\ Receives(p)
             => \A body \in Bodies(StatusInputs) :
                   NonPaid(body.status)
                   => \A header_sig \in SigInputs(body) :
                         Verified(body, header_sig)
                         => \A pid \in {NoPurchase} \cup (1 .. Len(purchases)) :
                               WebhookReceiveOf(p, MaxOverlap, body, header_sig, pid)
                               => /\ db' = db
                                  /\ granted' = granted
                                  /\ pc'[p] \in {"idle", "wh_set_status"}
                                  /\ pc'[p] = "idle" => resp'[p].code = 200
                                  /\ pc'[p] = "wh_set_status"
                                        => /\ NonPaid(loc'[p].status)
                                           /\ loc'[p].status = Upper(body.status)
                                           /\ loc'[p].purchase_id \in PurchaseIds
                                           /\ purchases[loc'[p].purchase_id].provider_ref
                                                 = ProviderRef(body)
          /\ Stepped(p, "wh_set_status")
             => LET pid == loc[p].purchase_id
                IN  /\ NonPaid(loc[p].status)
                    /\ purchases' = [purchases EXCEPT ![pid].status =
                                        IF loc[p].status = "" THEN "pending"
                                        ELSE Lower(loc[p].status)]
                    /\ credits_remaining' = credits_remaining
                    /\ sessions' = sessions
                    /\ granted' = granted
                    /\ resp'[p].code = 200]_vars

\* C25 witness: a CANCELED delivery has set a purchase's status to canceled,
\* and every balance is the initial one
CanceledStatusSet ==
    \E pid \in PurchaseIds :
       /\ purchases[pid].status = "canceled"
       /\ LogOf(pid) # <<>>
       /\ LogOf(pid)[1].status = "CANCELED"
       /\ LogOf(pid)[1].touched
       /\ credits_remaining = init_credits
       /\ sessions = init_sessions

\* the sum of what has been granted to the user's purchases
GrantedTo(u) == SumOver(OwnedBy(u), granted)

\* C26: grants and consumes on the same user, in any interleaving, lose no
\* update: in every state each user's balance is the initial balance plus
\* the amounts granted to the user minus the consumes that returned true.
NoLostUpdate ==
    \A u \in Users :
       credits_remaining[u] = init_credits[u] + GrantedTo(u) - user_ok[u]

\* C26 witness: a user has received a grant and has had a consume return
\* true, by two different workers
GrantAndConsumeOnOneUser ==
    \E u \in Users :
       /\ user_ok[u] = 1
       /\ GrantedTo(u) > 0
       /\ credits_remaining[u] = init_credits[u] + GrantedTo(u) - 1
       /\ \E p, q \in Procs :
             /\ p # q
             /\ resp[p].body \in {"credited", "checkout_ok"}
             /\ resp[q].code \in {200, 502}
             /\ resp[q].body \notin {"credited", "checkout_ok"}

\* the user an Authorization header was issued for (NoUser: for none)
IssuedFor(auth) ==
    IF VerifiesToUser(auth)
       THEN CHOOSE u \in Users : auth = Authorization("Bearer", MakeToken(u))
       ELSE NoUser

\* C27: identity resolution rejects no request: an analysis request is never
\* answered 401 or 403; one whose bearer token is absent or does not verify
\* goes on without a user (to the session's credit when its payload is
\* valid); a worker's user id is the one the token was issued for; and a
\* user's balance is decremented only by a worker that carries that user's
\* id, so never by a request without a verified token.
ResolutionNeverRejects ==
    [][\A p \in Procs :
          /\ Receives(p)
             => \A kind \in AnalyzeKinds, auth \in AuthInputs,
                   cookie \in {NoSession, StaleSid} \cup DOMAIN sessions :
                   \A payload \in Payloads(kind) :
                      AnalyzeRequest(p, MaxAnalyses, kind, auth, cookie, payload)
                      => /\ resp'[p].code \notin {401, 403}
                         /\ loc'[p].user_id = IssuedFor(auth) \/ pc'[p] = "idle"
                         /\ (pc'[p] = "idle") = InvalidPayload(kind, payload)
                         /\ (~VerifiesToUser(auth) /\ ~InvalidPayload(kind, payload))
                               => /\ pc'[p] = "consume_session"
                                  /\ loc'[p].user_id = NoUser
                         /\ credits_remaining' = credits_remaining
          /\ (pc[p] # "idle" /\ pc'[p] # "idle")
             => loc'[p].user_id = loc[p].user_id
          /\ \A u \in Users :
                credits_remaining'[u] < credits_remaining[u]
                => \E q \in Procs :
                      /\ Stepped(q, "consume_user_update")
                      /\ loc[q].user_id = u]_vars

\* C27 witness: a request without a user has passed the credit gate on its
\* session's credit while every user has credit, and no user was charged
AnonymousPaidBySession ==
    \E p \in Procs :
       /\ pc[p] = "ai"
       /\ loc[p].user_id = NoUser
       /\ loc[p].touched
       /\ sessions[loc[p].session_id] = SessionStart(loc[p].session_id) - 1
       /\ \A u \in Users : credits_remaining[u] > 0
       /\ credits_remaining = init_credits
       /\ user_calls = [u \in Users |-> 0]

\* C28: under the default configuration (FREE_CREDITS unset), the first
\* request of a fresh anonymous client (no user, a session created by the
\* request itself) with a valid text or .jpg/.png upload is answered 200;
\* the only other answer allowed for here is the 502 of a failed AI call.
FreshAnonymousAnalysisOk ==
    [][\A p \in Procs :
          (/\ pc[p] \in {"consume_session_update", "ai"}
           /\ pc'[p] = "idle"
           /\ nreq = 1
           /\ free_credits = FreeCreditsDefault
           /\ loc[p].kind \in AnalyzeKinds
           /\ loc[p].user_id = NoUser
           /\ loc[p].session_id \in DOMAIN sessions \ DOMAIN init_sessions)
          => resp'[p].code \in {200, 502}]_vars

\* the signature headers a caller can send with a payload, whatever the secret
AnySignature(body) == SigInputs(body) \cup {Hmac("teste123", body)}

\* C29: with no webhook secret configured, no delivery is answered 400
\* whatever its signature header, and the step the handler takes for a
\* payload is the same step for every signature header: the header has no
\* influence on what the handler does next.
NoSecretAcceptsEverySignature ==
    [][\A p \in Procs :
          (secret = "" /\ Receives(p))
          => \A body \in Bodies(StatusInputs),
                pid \in {NoPurchase} \cup (1 .. Len(purchases)) :
                (\E header_sig \in AnySignature(body) :
                    WebhookReceiveOf(p, MaxOverlap, body,header_sig, pid))
                => /\ resp'[p].code # 400
                   /\ \A other_sig \in AnySignature(body) :
                         WebhookReceiveOf(p, MaxOverlap, body,other_sig, pid)]_vars

\* C29 witness: with no secret configured a paid delivery was credited
UnsignedDeliveryCredited ==
    /\ secret = ""
    /\ \E pid \in PurchaseIds :
          /\ LogOf(pid) # <<>>
          /\ LogOf(pid)[1].body = "credited"
          /\ granted[pid] = purchases[pid].package
          /\ purchases[pid].status = "paid"

\* C30: with the mock provider, the Purchase start_checkout records as paid
\* and the credit of its package come together: in every state a checkout's
\* purchase exists exactly with its credit, the balance of its owner raised
\* by the package.
MockPaidTogetherWithCredit ==
    \A pid \in PurchaseIds :
       (purchases[pid].provider_ref = "MOCK-OK" /\ LogOf(pid) = <<>>)
       => /\ purchases[pid].status = "paid"
          /\ granted[pid] = purchases[pid].package


----------------------------------------------------------------------------
(* The rate limiter: utils/rate_limit.py SimpleRateLimiter, app.py rate_limit.
   The handlers above are the requests the limiter admitted; the limiter's own
   state is separate from the database and is modelled here. *)

MaxTime == 3
MaxCalls == 4

\* "self.last_call.get(key, 0)"
LastCall(key) == IF key \in DOMAIN last_call THEN last_call[key] ELSE 0

\* a loop that drops every event exactly window_s old as well
PruneInclusive(q, now, window) ==
    LET kept == {i \in 1 .. Len(q) : now - q[i] < window}
        first == IF kept = {} THEN Len(q) + 1
                 ELSE CHOOSE i \in kept : \A j \in kept : i <= j
    IN  SubSeq(q, first, Len(q))

\* a loop that empties the queue
PruneAll(q, now, window) == SubSeq(q, Len(q) + 1, Len(q))

\* "while q and (now - q[0]) > self.window_s: q.popleft()": the queue from
\* its first event that is not older than the window
Prune(q, now, window) ==
    LET kept == {i \in 1 .. Len(q) : now - q[i] <= window}
        first == IF kept = {} THEN Len(q) + 1
                 ELSE CHOOSE i \in kept : \A j \in kept : i <= j
    IN  SubSeq(q, first, Len(q))

\* "if q and (now - self.last_call.get(key, 0)) < self.min_interval_s"
TooSoon(q, now, last) == q # <<>> /\ now - last < min_interval_s

\* a limit test that lets the queue grow one past the limit
FullPastLimit(q) == Len(q) > max_requests

\* "if len(q) >= self.max_requests"
Full(q) == Len(q) >= max_requests

\* rate_limit: 429 when allow(key) is False, the handler's response otherwise
Limited == Response(429, "rate_limited")
Allowed == Response(0, "allowed")

\* rate_limit computes the key; allow: "now = time.time(); q = self.events[key]"
AllowEnter(p, max) ==
    /\ pc[p] = "idle"
    /\ nreq < max
    /\ \E key \in Keys :
          Goto(p, "rl_prune", [LocIdle EXCEPT !.kind = "allow", !.key = key, !.now = clock])
    /\ nreq' = nreq + 1
    /\ UNCHANGED <<db, storage, row_lock, config, limiter, registered, ledger_hist, pay_hist>>

\* the pruning loop
AllowPrune(p) ==
    /\ pc[p] = "rl_prune"
    /\ events' = [events EXCEPT ![loc[p].key] = Prune(@, loc[p].now, window_s)]
    /\ Goto(p, "rl_check", loc[p])
    /\ UNCHANGED <<db, storage, row_lock, config, last_call, clock, admitted, registered,
                   nreq, ledger_hist, pay_hist>>

\* the two tests: "return False", or go on to record the call
AllowCheck(p) ==
    /\ pc[p] = "rl_check"
    /\ LET q == events[loc[p].key]
       IN  IF TooSoon(q, loc[p].now, LastCall(loc[p].key)) \/ Full(q)
           THEN Finish(p, Limited)
           ELSE Goto(p, "rl_append", loc[p])
    /\ UNCHANGED <<db, storage, row_lock, config, limiter, registered, nreq, ledger_hist,
                   pay_hist>>

\* "q.append(now); self.last_call[key] = now; return True"
AllowAppend(p) ==
    /\ pc[p] = "rl_append"
    /\ LET key == loc[p].key
           now == loc[p].now
       IN  /\ events' = [events EXCEPT ![key] = Append(@, now)]
           /\ last_call' = [k \in DOMAIN last_call \cup {key} |->
                               IF k = key THEN now ELSE last_call[k]]
           /\ admitted' = [admitted EXCEPT ![key] = Append(@, now)]
    /\ Finish(p, Allowed)
    /\ UNCHANGED <<db, storage, row_lock, config, clock, registered, nreq, ledger_hist,
                   pay_hist>>

Allow(p, max) ==
    \/ AllowEnter(p, max)
    \/ AllowPrune(p)
    \/ AllowCheck(p)
    \/ AllowAppend(p)

\* time passes
Tick ==
    /\ clock < MaxTime
    /\ clock' = clock + 1
    /\ UNCHANGED <<db, storage, row_lock, config, events, last_call, admitted, registered,
                   pc, loc, resp, nreq, ledger_hist, pay_hist>>

\* a database nothing in these specifications touches
InitQuiet ==
    /\ credits_remaining = [u \in Users |-> 0]
    /\ init_credits = credits_remaining
    /\ user_calls = [u \in Users |-> 0]
    /\ user_ok = [u \in Users |-> 0]
    /\ free_credits = FreeCreditsDefault
    /\ sessions = <<>>
    /\ init_sessions = sessions
    /\ analyses = <<>>
    /\ purchases = <<>>
    /\ granted = <<>>
    /\ log = <<>>
    /\ provider = "mock"
    /\ secret = ""

\* every small configuration of the limiter, one of them with a minimum
\* interval longer than the window
WindowInputs == {1, 2}
LimitInputs == {1, 2}
IntervalInputs == {0, 1, 3}

LimiterInit ==
    /\ InitProcs
    /\ InitQuiet
    /\ InitGatewayDefault
    /\ registered = <<>>
    /\ window_s \in WindowInputs
    /\ max_requests \in LimitInputs
    /\ min_interval_s \in IntervalInputs
    /\ events = [k \in Keys |-> <<>>]
    /\ last_call = [k \in {} |-> 0]
    /\ clock = 0
    /\ admitted = [k \in Keys |-> <<>>]

\* allow() calls one after the other, at non-decreasing times
LimiterNext == (\E p \in {1} : Allow(p, MaxCalls)) \/ Tick
SpecLimiter == LimiterInit /\ [][LimiterNext]_vars

\* allow() in two request threads
ThreadsNext == (\E p \in Pair : Allow(p, MaxCalls)) \/ Tick
SpecThreads == LimiterInit /\ [][ThreadsNext]_vars

\* the admitted calls of a key whose times lie in the span [t, t + window_s]
AdmittedWithin(key, t) ==
    {i \in 1 .. Len(admitted[key]) :
        t <= admitted[key][i] /\ admitted[key][i] <= t + window_s}

\* C31: calls one after the other at non-decreasing times: for every key and
\* every span of window_s seconds, at most max_requests of the calls in the
\* span returned True.
CapPerWindow ==
    \A key \in Keys : \A t \in 0 .. MaxTime :
        Cardinality(AdmittedWithin(key, t)) <= max_requests

\* C31 witness: a key has max_requests admitted calls in one span, and a
\* further call in that span was answered False.
CapReachedThenDenied ==
    \E p \in {1} : \E key \in Keys : \E t \in 0 .. MaxTime :
        /\ Cardinality(AdmittedWithin(key, t)) = max_requests
        /\ resp[p] = Limited
        /\ clock <= t + window_s
        /\ min_interval_s = 0


\* the events of a queue that are not older than the window at time t
Recent(q, t) == SelectSeq(q, LAMBDA e : t - e <= window_s)

\* whether a call for the key at time t would be admitted, the limiter's
\* records being ev and lc
WouldAdmit(ev, lc, key, t) ==
    LET q == Recent(ev[key], t)
        last == IF key \in DOMAIN lc THEN lc[key] ELSE 0
    IN  ~ (q # <<>> /\ t - last < min_interval_s) /\ Len(q) < max_requests

\* C37: a call that returns False appends no event and leaves last_call as it
\* was; the only change a call makes before its tests is to drop its own
\* key's events older than the window, every other key's records stay, and
\* at every later time the key is admitted exactly when it would have been
\* without the call.
DeniedRecordsNothing ==
    [][\A p \in {1} :
          /\ Stepped(p, "idle") => UNCHANGED limiter
          /\ Stepped(p, "rl_prune") =>
                /\ events'[loc[p].key] = Recent(events[loc[p].key], loc[p].now)
                /\ \A k \in Keys \ {loc[p].key} : events'[k] = events[k]
                /\ UNCHANGED <<last_call, admitted>>
                /\ \A t \in loc[p].now .. MaxTime :
                      WouldAdmit(events', last_call', loc[p].key, t)
                          = WouldAdmit(events, last_call, loc[p].key, t)
          /\ (Stepped(p, "rl_check") /\ resp'[p] = Limited) => UNCHANGED limiter
      ]_vars

\* C37 witness: the only key that was ever admitted has had events pruned,
\* still has an event in its window, and its last call was answered False.
DeniedAfterPruning ==
    \E key \in Keys :
        /\ resp[1] = Limited
        /\ events[key] # <<>>
        /\ Len(events[key]) < Len(admitted[key])
        /\ \A k \in Keys \ {key} : admitted[k] = <<>>


\* C32: for every configuration, any two calls of one key that both returned
\* True are at least min_interval_s apart.
AdmittedMinIntervalApart ==
    \A key \in Keys : \A i, j \in 1 .. Len(admitted[key]) :
        i < j => admitted[key][j] - admitted[key][i] >= min_interval_s


\* C36: with allow() running in two request threads, no key ever has more
\* than max_requests events in its queue, and no span of window_s seconds
\* holds more than max_requests admitted calls.
CapUnderThreads ==
    \A key \in Keys :
        /\ Len(events[key]) <= max_requests
        /\ \A t \in 0 .. MaxTime :
              Cardinality({i \in 1 .. Len(admitted[key]) :
                              admitted[key][i] \in t .. t + window_s}) <= max_requests


----------------------------------------------------------------------------
(* The AI gateway: services/openai_client.py OpenAIClient.analyze_text and
   analyze_image. AnalyzeAi above is one call seen from the handler; here
   are the attempts inside it. *)

\* _ok(...) and _err(...), with the number of attempts made (history)
GatewayOk(n) == Reply(0, "ok", n)
GatewayErr(n) == Reply(0, "error", n)

GatewayKinds == {"analyze_text", "analyze_image"}
RetriesInputs == {0 - 1, 0, 1, RetriesDefault}

\* "for attempt in range(self.retries + 1)"
InRange(attempt) == 0 <= attempt /\ attempt < retries + 1

\* a loop body that sleeps and goes on after a successful attempt as well
AfterAttemptIgnoringSuccess(ok, attempt) ==
    IF attempt < retries THEN "sleep" ELSE IF ok THEN "return_ok" ELSE "return_err"

\* the loop body after create(): "return self._ok(...)"; or, in the except
\* clause, "if attempt < self.retries: time.sleep(...)  else: return self._err(...)"
AfterAttempt(ok, attempt) ==
    IF ok THEN "return_ok" ELSE IF attempt < retries THEN "sleep" ELSE "return_err"

\* the call starts: the mock result; or the image cannot be read; or the loop
\* is entered (an empty range falls through to the last "return self._err")
GatewayCall(p, max) ==
    /\ pc[p] = "idle"
    /\ nreq < max
    /\ \E kind \in GatewayKinds, readable \in BOOLEAN :
          IF mock
          THEN Finish(p, GatewayOk(0))
          ELSE IF kind = "analyze_image" /\ ~ readable
          THEN Finish(p, GatewayErr(0))
          ELSE IF ~ InRange(0)
          THEN Finish(p, GatewayErr(0))
          ELSE Goto(p, "gw_attempt", [LocIdle EXCEPT !.kind = kind, !.attempt = 0])
    /\ nreq' = nreq + 1
    /\ UNCHANGED <<db, storage, row_lock, config, limiter, registered, ledger_hist, pay_hist>>

\* one attempt: create(..., timeout=self.request_timeout_s) and the parsing
\* of its answer, which return or raise
GatewayAttempt(p) ==
    /\ pc[p] = "gw_attempt"
    /\ \E ok \in BOOLEAN :
          Goto(p, "gw_after", [loc[p] EXCEPT !.status = IF ok THEN "returned" ELSE "raised"])
    /\ UNCHANGED <<db, storage, row_lock, config, limiter, registered, nreq, ledger_hist,
                   pay_hist>>

\* what the loop does with the attempt's outcome
GatewayAfter(p) ==
    /\ pc[p] = "gw_after"
    /\ LET attempt == loc[p].attempt
           todo == AfterAttempt(loc[p].status = "returned", attempt)
       IN  IF todo = "return_ok"
           THEN Finish(p, GatewayOk(attempt + 1))
           ELSE IF todo = "return_err"
           THEN Finish(p, GatewayErr(attempt + 1))
           ELSE IF InRange(attempt + 1)
           THEN Goto(p, "gw_attempt", [loc[p] EXCEPT !.attempt = attempt + 1, !.status = ""])
           ELSE Finish(p, GatewayErr(attempt + 1))
    /\ UNCHANGED <<db, storage, row_lock, config, limiter, registered, nreq, ledger_hist,
                   pay_hist>>

Gateway(p, max) ==
    \/ GatewayCall(p, max)
    \/ GatewayAttempt(p)
    \/ GatewayAfter(p)

GatewayInit ==
    /\ InitProcs
    /\ InitQuiet
    /\ InitLimiterDefault
    /\ registered = <<>>
    /\ retries \in RetriesInputs
    /\ mock \in BOOLEAN

GatewayNext == \E p \in {1} : Gateway(p, MaxCalls)
\* every attempt ends, by its timeout at the latest, and the backoff sleep ends
SpecGateway ==
    /\ GatewayInit
    /\ [][GatewayNext]_vars
    /\ WF_vars(GatewayNext)

\* C33: a call makes at most retries + 1 attempts; a successful attempt ends
\* the call at once with its result; a failed attempt is followed by another
\* only while fewer than retries + 1 were made, and the last failure ends the
\* call with {ok: false}; a call that makes no attempt ends with a result as
\* well; and every call that started ends.
GatewayBoundedAndStructured ==
    /\ [](\A p \in {1} :
            /\ pc[p] \in {"gw_attempt", "gw_after"} => loc[p].attempt \in 0 .. retries
            /\ (pc[p] = "idle" /\ resp[p] # NoResponse) =>
                   \E n \in 0 .. retries + 1 : resp[p] \in {GatewayOk(n), GatewayErr(n)})
    /\ [][\A p \in {1} :
            /\ (Stepped(p, "gw_after") /\ loc[p].status = "returned") =>
                   pc'[p] = "idle" /\ resp'[p] = GatewayOk(loc[p].attempt + 1)
            /\ (Stepped(p, "gw_after") /\ loc[p].status = "raised") =>
                   IF loc[p].attempt < retries
                   THEN pc'[p] = "gw_attempt" /\ loc'[p].attempt = loc[p].attempt + 1
                   ELSE pc'[p] = "idle" /\ resp'[p] = GatewayErr(retries + 1)
            /\ (Stepped(p, "idle") /\ pc'[p] = "idle") =>
                   resp'[p] \in {GatewayOk(0), GatewayErr(0)}
       ]_vars
    /\ \A p \in {1} : (pc[p] # "idle") ~> (pc[p] = "idle")

\* C33 witness: under the default two retries a call ended with {ok: false}
\* after three failed attempts.
ErrAfterLastAttempt == retries = RetriesDefault /\ resp[1] = GatewayErr(RetriesDefault + 1)


----------------------------------------------------------------------------
(* Analysis requests that all carry user 1's token and session 1's cookie *)

SameCallerInit ==
    /\ InitWorkers
    /\ InitNoPurchases
    /\ \E b \in 0 .. MaxBalance :
          credits_remaining = [u \in Users |-> IF u = 1 THEN b ELSE 0]
    /\ init_credits = credits_remaining
    /\ user_calls = [u \in Users |-> 0]
    /\ user_ok = [u \in Users |-> 0]
    /\ free_credits = FreeCreditsDefault
    /\ \E b \in 0 .. MaxBalance : sessions = (1 :> b)
    /\ init_sessions = sessions
    /\ analyses = <<>>

SameCallerNext ==
    \E p \in Pair :
       \/ AnalyzeReceiveFrom(p, AnalyzeKinds, {Authorization("Bearer", MakeToken(1))}, {},
                             MaxCalls)
       \/ AnalyzeSteps(p)
SpecSameCaller == SameCallerInit /\ [][SameCallerNext]_vars

\* the request of worker p passes the credit gate in this step
PassesGate(p) == pc[p] # "ai" /\ pc'[p] = "ai"

\* C34: overlapping requests of one user U and one session S: a request that
\* passes the gate takes, in the step in which it passes, exactly 1 from
\* exactly one of the two balances; the balances change in no other step;
\* and neither balance goes below zero, so at most Bu + Bs requests pass.
SameCallerPassesBounded ==
    /\ [](/\ credits_remaining[1] \in 0 .. init_credits[1]
          /\ sessions[1] \in 0 .. init_sessions[1]
          /\ DOMAIN sessions = {1}
          /\ credits_remaining[2] = init_credits[2])
    /\ [][/\ \A p \in Pair :
                PassesGate(p) =>
                    \/ /\ credits_remaining'[1] = credits_remaining[1] - 1
                       /\ sessions' = sessions
                    \/ /\ sessions'[1] = sessions[1] - 1
                       /\ credits_remaining' = credits_remaining
          /\ (credits_remaining' # credits_remaining \/ sessions' # sessions) =>
                \E p \in Pair : PassesGate(p) /\ \A q \in Pair \ {p} : pc'[q] = pc[q]
       ]_vars

\* C34 witness: both balances were positive, both are used up, one request is
\* past the gate and another was answered 402.
SameCallerExhausted ==
    /\ init_credits[1] > 0 /\ init_sessions[1] > 0
    /\ credits_remaining[1] = 0 /\ sessions[1] = 0
    /\ \E p, q \in Pair : pc[p] = "ai" /\ pc[q] = "idle" /\ resp[q].code = 402


----------------------------------------------------------------------------
(* Registration: app.py auth_register. count_recent_users_by_ip and the
   create_user that takes ip_hash are imported from db.models; they are
   modelled from their call in auth_register, each a transaction of its own
   like the other helpers of db.models. *)

Emails == {"a@x", "b@x"}
IpHashes == {"h1", "h2"}
\* "initial_credits = 3 if already == 0 else 0"
RegistrationCredits == 3

UserRow(email, ip_hash, credits, recent) ==
    [email |-> email, ip_hash |-> ip_hash, credits |-> credits, recent |-> recent]

\* get_user_by_email
EmailTaken(rows, email) == \E i \in 1 .. Len(rows) : rows[i].email = email

\* count_recent_users_by_ip(iph, days=30)
CountRecentUsersByIp(rows, ip_hash) ==
    Cardinality({i \in 1 .. Len(rows) : rows[i].ip_hash = ip_hash /\ rows[i].recent})

InitialCredits(already) == IF already = 0 THEN RegistrationCredits ELSE 0

\* the body's checks and get_user_by_email
RegisterReceive(p, max) ==
    /\ pc[p] = "idle"
    /\ nreq < max
    /\ \E email \in Emails \cup {""}, ip_hash \in IpHashes :
          IF email = ""
          THEN Finish(p, Response(400, "Email e senha sao obrigatorios."))
          ELSE IF EmailTaken(registered, email)
          THEN Finish(p, Response(409, "Email ja cadastrado."))
          ELSE Goto(p, "reg_count", [LocIdle EXCEPT !.kind = "register", !.email = email,
                                                    !.ip_hash = ip_hash])
    /\ nreq' = nreq + 1
    /\ UNCHANGED <<db, storage, row_lock, config, limiter, registered, ledger_hist, pay_hist>>

\* "already = count_recent_users_by_ip(iph, days=30)"
RegisterCount(p) ==
    /\ pc[p] = "reg_count"
    /\ Goto(p, "reg_create",
            [loc[p] EXCEPT !.seen = CountRecentUsersByIp(registered, loc[p].ip_hash)])
    /\ UNCHANGED <<db, storage, row_lock, config, limiter, registered, nreq, ledger_hist,
                   pay_hist>>

\* create_user(..., credits=initial_credits, ip_hash=iph) and the response;
\* users.email is UNIQUE
RegisterCreate(p) ==
    /\ pc[p] = "reg_create"
    /\ LET initial_credits == InitialCredits(loc[p].seen)
       IN  IF EmailTaken(registered, loc[p].email)
           THEN /\ Finish(p, Response(500, "IntegrityError"))
                /\ UNCHANGED registered
           ELSE /\ registered' = Append(registered, UserRow(loc[p].email, loc[p].ip_hash,
                                                            initial_credits, TRUE))
                /\ Finish(p, Reply(200, "registered", initial_credits))
    /\ UNCHANGED <<db, storage, row_lock, config, limiter, nreq, ledger_hist, pay_hist>>

Register(p, max) ==
    \/ RegisterReceive(p, max)
    \/ RegisterCount(p)
    \/ RegisterCreate(p)

\* no user yet, or one who registered from h1 more than 30 days ago
RegisterInit ==
    /\ InitProcs
    /\ InitQuiet
    /\ InitLimiterDefault
    /\ InitGatewayDefault
    /\ registered \in {<<>>, <<UserRow("old@x", "h1", RegistrationCredits, FALSE)>>}

RegisterNext == \E p \in Pair : Register(p, MaxCalls)
SpecRegister == RegisterInit /\ [][RegisterNext]_vars

\* C35: among the users registered from one IP hash within the 30 days, at
\* most one started with the 3 initial credits, and the others started with 0.
OneInitialGrantPerIp ==
    \A h \in IpHashes :
        LET recent == {i \in 1 .. Len(registered) :
                          registered[i].ip_hash = h /\ registered[i].recent}
        IN  /\ Cardinality({i \in recent : registered[i].credits = RegistrationCredits}) <= 1
            /\ \A i \in recent : registered[i].credits \in {0, RegistrationCredits}

============================================================================
